---- MODULE Spec2Model ----
(***************************************************************************)
(* State-machine model of the AI news digest: the RSS aggregator           *)
(* (scrape.py), the window collector and the mailer (send_email.py), and   *)
(* the status report of the monitor (monitor.py).                          *)
(*                                                                         *)
(* Time is an integer number of ticks; a calendar day is TicksPerDay       *)
(* ticks, so tick t lies in day t \div TicksPerDay at time of day          *)
(* t % TicksPerDay.  Text is a sequence of tokens.  The data directory is  *)
(* a function from file names to file contents.                            *)
(***************************************************************************)
EXTENDS Integers, Sequences, FiniteSets, TLC

VARIABLES
    now,          \* the wall clock, in ticks
    dirExists,    \* whether the directory data/ exists
    files,        \* data/: file name -> file content
    saveLog,      \* the last save_articles_to_json call and what it met
    upstream,     \* what each feed source answers to a fetch
    run,          \* scrape.main: position, locals and the last finished run
    scraped,      \* the last scrape_feed call: its source, response and result
    collected,    \* the last get_articles_from_last_week call
    savers,       \* overlapping save_articles_to_json calls: position and locals
    mail,         \* send_email.main: position, locals and what it did per audience
    monitor       \* monitor.py: the log files, the environment and the last status report

vars == <<now, dirExists, files, saveLog, upstream, run, scraped, collected, savers, mail, monitor>>

---------------------------------------------------------------------------
(* Bounds of the model *)

\* granularity of the time of day
TicksPerDay == 2
\* longest list of articles handed to one save_articles_to_json call
MaxNew == 2

---------------------------------------------------------------------------
(* Sequences *)

Range(s) == {s[i] : i \in 1..Len(s)}

SeqsUpTo(S, n) == UNION {[1..k -> S] : k \in 0..n}

IsPrefix(s, t) == Len(s) <= Len(t) /\ \A i \in 1..Len(s) : s[i] = t[i]

---------------------------------------------------------------------------
(* Dates and file names *)

\* datetime.strftime('%Y-%m-%d'): the date of an instant; the time of day is dropped
strftime(t) == [kind |-> "date", day |-> t \div TicksPerDay]

NotADate(text) == [kind |-> text, day |-> 0]

\* f"data/{date_str}.json"
SnapshotName(date_str) == [stem |-> date_str, ext |-> "json"]

---------------------------------------------------------------------------
(* File contents and JSON *)

\* text that json.load rejects: an empty or cut-off file, or no JSON at all
Corrupt == [kind |-> "corrupt", body |-> <<>>, readable |-> TRUE]

\* json.dump(value, f, indent=2, ensure_ascii=False) of a list, fully written
json_dump(value) == [kind |-> "array", body |-> value, readable |-> TRUE]

\* json.load raises json.JSONDecodeError (a ValueError) on such a file
JsonLoadRaises(content) == content.kind = "corrupt"

\* json.load(f): the value the text denotes
json_load(content) == content.body

---------------------------------------------------------------------------
(* Article records *)

Audiences == {"audience_1", "audience_2"}

Article(title, summary, link, source, audience, timestamp) ==
    [title |-> title, summary |-> summary, link |-> link, source |-> source,
     audience |-> audience, timestamp |-> timestamp]

Links(s) == [i \in 1..Len(s) |-> s[i].link]

---------------------------------------------------------------------------
(* scrape.py: the feed registry *)

Src1 == "Ben's Bites"
Src2 == "The Rundown AI"
Src3 == "AI Policy Exchange"

\* RSS_FEEDS in the order main walks it, cut to two sources of the first
\* audience and one of the second
RSS_FEEDS ==
    << [name |-> Src1, audience |-> "audience_1"],
       [name |-> Src2, audience |-> "audience_1"],
       [name |-> Src3, audience |-> "audience_2"] >>

---------------------------------------------------------------------------
(* scrape.py: clean_text *)

Tags == {"<b>", "</b>"}
Whitespace == {" ", "\n"}

\* BeautifulSoup(text, 'html.parser').get_text(): the text without its tags
get_text(text) == SelectSeq(text, LAMBDA tok : tok \notin Tags)

\* ' '.join(text.split()): the words, one blank between two of them
RECURSIVE JoinSplit(_, _, _, _)
JoinSplit(text, i, out, pending) ==
    IF i > Len(text) THEN out
    ELSE IF text[i] \in Whitespace
         THEN JoinSplit(text, i + 1, out, out # <<>>)
         ELSE JoinSplit(text, i + 1,
                        (IF pending THEN Append(out, " ") ELSE out) \o <<text[i]>>,
                        FALSE)

\* lines 119-131
clean_text(text) ==
    IF text = <<>> THEN <<>> ELSE JoinSplit(get_text(text), 1, <<>>, FALSE)

---------------------------------------------------------------------------
(* scrape.py: extract_article_data *)

\* A feed entry: each attribute may be missing (has = FALSE).  A parsed date
\* is None (kind "none"), a time tuple (kind "time") or a tuple datetime()
\* rejects (kind "bad").
Attr(val) == [has |-> TRUE, val |-> val]
NoAttr == [has |-> FALSE, val |-> <<>>]
NoLink == [has |-> FALSE, val |-> ""]
DateAttr(kind, t) == [has |-> TRUE, kind |-> kind, t |-> t]
NoDate == [has |-> FALSE, kind |-> "none", t |-> 0]

Entry(title, link, summary, description, published_parsed, updated_parsed) ==
    [title |-> title, link |-> link, summary |-> summary, description |-> description,
     published_parsed |-> published_parsed, updated_parsed |-> updated_parsed]

\* datetime.isoformat(): a non-empty text naming the instant
isoformat(t) == <<t>>

\* hasattr(entry, a) and entry.a, for a parsed date
Truthy(date) == date.has /\ date.kind # "none"

Timestamp(raises, timestamp) == [raises |-> raises, timestamp |-> timestamp]

\* A variant that looks at the updated time first
ResolveTimestampUpdatedFirst(entry, t) ==
    IF Truthy(entry.updated_parsed)
    THEN Timestamp(entry.updated_parsed.kind = "bad", isoformat(entry.updated_parsed.t))
    ELSE IF Truthy(entry.published_parsed)
    THEN Timestamp(entry.published_parsed.kind = "bad", isoformat(entry.published_parsed.t))
    ELSE Timestamp(FALSE, isoformat(t))

\* lines 137-142, at time t
ResolveTimestamp(entry, t) ==
    IF Truthy(entry.published_parsed)
    THEN Timestamp(entry.published_parsed.kind = "bad", isoformat(entry.published_parsed.t))
    ELSE IF Truthy(entry.updated_parsed)
    THEN Timestamp(entry.updated_parsed.kind = "bad", isoformat(entry.updated_parsed.t))
    ELSE Timestamp(FALSE, isoformat(t))

Extracted(data) == [none |-> FALSE, data |-> data]
ExtractedNone == [none |-> TRUE, data |-> Article(<<>>, <<>>, "", "", "", <<>>)]

\* A variant that stamps an entry with the clock when its date is rejected
ExtractIgnoringBadDate(entry, source_name, audience, t) ==
    LET title == IF entry.title.has THEN clean_text(entry.title.val) ELSE <<>>
        link == IF entry.link.has THEN entry.link.val ELSE ""
    IN  Extracted(Article(title, <<>>, link, source_name, audience, isoformat(t)))

\* lines 133-167, at time t
extract_article_data(entry, source_name, audience, t) ==
    LET ts == ResolveTimestamp(entry, t)
        summary == IF entry.summary.has THEN clean_text(entry.summary.val)
                   ELSE IF entry.description.has THEN clean_text(entry.description.val)
                   ELSE <<>>
        title == IF entry.title.has THEN clean_text(entry.title.val) ELSE <<>>
        link == IF entry.link.has THEN entry.link.val ELSE ""
    IN  IF ts.raises THEN ExtractedNone
        ELSE Extracted(Article(title, summary, link, source_name, audience, ts.timestamp))

---------------------------------------------------------------------------
(* scrape.py: scrape_feed *)

\* What a source answers: its feed, or a transport failure
Response(status, entries) == [status |-> status, entries |-> entries]
FetchRaises(response) == response.status # "ok"

\* A variant of the test that looks at the title alone
AcceptedTitleOnly(article_data) ==
    ~article_data.none /\ article_data.data.title # <<>>

\* line 197
Accepted(article_data) ==
    ~article_data.none /\ article_data.data.title # <<>> /\ article_data.data.link # ""

\* lines 190-198
RECURSIVE EntriesLoop(_, _, _, _, _)
EntriesLoop(entries, i, feed_config, t, articles) ==
    IF i > Len(entries) THEN articles
    ELSE LET article_data ==
                 extract_article_data(entries[i], feed_config.name, feed_config.audience, t)
         IN  IF Accepted(article_data)
             THEN EntriesLoop(entries, i + 1, feed_config, t,
                              Append(articles, article_data.data))
             ELSE EntriesLoop(entries, i + 1, feed_config, t, articles)

\* lines 169-205, at time t
scrape_feed(feed_config, response, t) ==
    IF FetchRaises(response) THEN <<>>
    ELSE EntriesLoop(response.entries, 1, feed_config, t, <<>>)

---------------------------------------------------------------------------
(* scrape.py: save_articles_to_json *)

\* What the storage can do to one call: nothing, or fail at one of its steps
Faults == {"none", "makedirs", "read", "open_w", "dump", "close"}

\* The loop of lines 229-234: keep the articles whose link was not seen before
RECURSIVE DedupLoop(_, _, _, _)
DedupLoop(all_articles, i, seen_links, unique_articles) ==
    IF i > Len(all_articles) THEN unique_articles
    ELSE IF all_articles[i].link \notin seen_links
         THEN DedupLoop(all_articles, i + 1,
                        seen_links \cup {all_articles[i].link},
                        Append(unique_articles, all_articles[i]))
         ELSE DedupLoop(all_articles, i + 1, seen_links, unique_articles)

\* The loop, letting the last copy of a link replace the earlier one
RECURSIVE DedupLoopLastWins(_, _, _, _)
DedupLoopLastWins(all_articles, i, seen_links, unique_articles) ==
    IF i > Len(all_articles) THEN unique_articles
    ELSE IF all_articles[i].link \notin seen_links
         THEN DedupLoopLastWins(all_articles, i + 1,
                                seen_links \cup {all_articles[i].link},
                                Append(unique_articles, all_articles[i]))
         ELSE DedupLoopLastWins(all_articles, i + 1, seen_links,
                  [j \in 1..Len(unique_articles) |->
                      IF unique_articles[j].link = all_articles[i].link
                      THEN all_articles[i] ELSE unique_articles[j]])

\* A variant that only drops a link repeated by the directly preceding article
RemoveDuplicatesAdjacent(all_articles) ==
    LET keep(i) == i = 1 \/ all_articles[i].link # all_articles[i - 1].link
        F[i \in 0..Len(all_articles)] ==
            IF i = 0 THEN <<>>
            ELSE IF keep(i) THEN Append(F[i - 1], all_articles[i]) ELSE F[i - 1]
    IN F[Len(all_articles)]

\* A variant in which the last copy of a link wins
RemoveDuplicatesLastWins(all_articles) == DedupLoopLastWins(all_articles, 1, {}, <<>>)

\* A variant that takes link and audience together as the identity
RemoveDuplicatesPerAudience(all_articles) ==
    LET first(i) == \A j \in 1..(i - 1) :
                        \/ all_articles[j].link # all_articles[i].link
                        \/ all_articles[j].audience # all_articles[i].audience
        F[i \in 0..Len(all_articles)] ==
            IF i = 0 THEN <<>>
            ELSE IF first(i) THEN Append(F[i - 1], all_articles[i]) ELSE F[i - 1]
    IN F[Len(all_articles)]

\* lines 226-234: the duplicates removed from the concatenation
RemoveDuplicates(all_articles) == DedupLoop(all_articles, 1, {}, <<>>)

WithFile(fs, name, content) ==
    [n \in DOMAIN fs \cup {name} |-> IF n = name THEN content ELSE fs[n]]

SaveOutcome(dir, fs, outcome) == [dirExists |-> dir, files |-> fs, outcome |-> outcome]

\* lines 220-226: the snapshot exists and reading it raises: open or read
\* fails, json.load rejects the text, or the value is no list (existing_data +
\* articles raises TypeError)
ReadFails(date_str, fault, fs) ==
    LET filename == SnapshotName(date_str)
    IN  /\ filename \in DOMAIN fs
        /\ \/ fault = "read"
           \/ ~fs[filename].readable
           \/ JsonLoadRaises(fs[filename])
           \/ fs[filename].kind # "array"

\* lines 213-243: the call once the list is known to be non-empty
SaveNonEmpty(articles, date_str, fault, dir, fs) ==
    LET filename == SnapshotName(date_str)
        exists   == filename \in DOMAIN fs
        readFails == ReadFails(date_str, fault, fs)
        existing_data == IF exists THEN json_load(fs[filename]) ELSE <<>>
        unique_articles == RemoveDuplicates(existing_data \o articles)
    IN  IF fault = "makedirs" THEN SaveOutcome(dir, fs, "raised")
        ELSE IF readFails THEN SaveOutcome(TRUE, fs, "error")
        ELSE IF fault = "open_w" THEN SaveOutcome(TRUE, fs, "error")
        ELSE IF fault = "dump"
             THEN SaveOutcome(TRUE, WithFile(fs, filename, Corrupt), "error")
        ELSE IF fault = "close"
             THEN SaveOutcome(TRUE, WithFile(fs, filename, json_dump(unique_articles)),
                              "error")
        ELSE SaveOutcome(TRUE, WithFile(fs, filename, json_dump(unique_articles)),
                         "saved")

\* A variant without the early return of lines 209-211
SaveAlways(articles, date_str, fault, dir, fs) ==
    SaveNonEmpty(articles, date_str, fault, dir, fs)

\* lines 207-243
save_articles_to_json(articles, date_str, fault, dir, fs) ==
    IF articles = <<>> THEN SaveOutcome(dir, fs, "skipped")
    ELSE SaveNonEmpty(articles, date_str, fault, dir, fs)

NoSave == [date_str |-> strftime(0), articles |-> <<>>,
           dirBefore |-> FALSE, filesBefore |-> <<>>, outcome |-> "none"]

\* One call of save_articles_to_json; saveLog remembers the call and the
\* directory it met
Save(articles, date_str, fault) ==
    LET r == save_articles_to_json(articles, date_str, fault, dirExists, files)
    IN  /\ dirExists' = r.dirExists
        /\ files' = r.files
        /\ saveLog' = [date_str |-> date_str, articles |-> articles,
                       dirBefore |-> dirExists, filesBefore |-> files,
                       outcome |-> r.outcome]

\* The snapshot of date_str in directory fs, as a reader parses it: the
\* records of a well-formed file, none otherwise
SnapshotOf(fs, date_str) ==
    LET filename == SnapshotName(date_str)
    IN  IF filename \in DOMAIN fs /\ fs[filename].kind = "array"
        THEN fs[filename].body ELSE <<>>

HasSnapshot(fs, date_str) ==
    LET filename == SnapshotName(date_str)
    IN  filename \in DOMAIN fs /\ fs[filename].kind = "array"

---------------------------------------------------------------------------
(* scrape.py: save_articles_to_json, step by step, for calls that overlap *)

\* The processes that may be in save_articles_to_json at the same time
Savers == {1, 2}

\* A call that has not started
Saver(articles, date_str) ==
    [pc |-> "start", articles |-> articles, date_str |-> date_str,
     existing_data |-> <<>>, unique_articles |-> <<>>, outcome |-> "none", seq |-> 0]

\* The number of the next json.dump to complete
NextSeq ==
    LET S == {savers[q].seq : q \in Savers}
    IN  1 + CHOOSE n \in S : \A m \in S : m <= n

\* A variant that merges with the file as it is when the write starts
MergeWithCurrentFile(p) ==
    RemoveDuplicates(SnapshotOf(files, savers[p].date_str) \o savers[p].articles)

\* lines 226-234: the merge, over the copy read at lines 221-223
Merge(p) == RemoveDuplicates(savers[p].existing_data \o savers[p].articles)

\* lines 209-223: the early return, os.makedirs, and the read of the snapshot
SaverRead(p) ==
    /\ savers[p].pc = "start"
    /\ LET me == savers[p]
           filename == SnapshotName(me.date_str)
       IN  IF me.articles = <<>>
           THEN /\ savers' = [savers EXCEPT ![p].pc = "done", ![p].outcome = "skipped"]
                /\ UNCHANGED dirExists
           ELSE /\ dirExists' = TRUE
                /\ IF ReadFails(me.date_str, "none", files)
                   THEN savers' = [savers EXCEPT ![p].pc = "done",
                                                 ![p].outcome = "error"]
                   ELSE savers' = [savers EXCEPT
                            ![p].pc = "read",
                            ![p].existing_data =
                                IF filename \in DOMAIN files
                                THEN json_load(files[filename]) ELSE <<>>]
    /\ UNCHANGED <<now, files, saveLog, upstream, run, scraped, collected, mail, monitor>>

\* lines 226-237: the merge in memory, then open(filename, 'w'), which
\* creates the file or cuts it to length 0
SaverOpen(p) ==
    /\ savers[p].pc = "read"
    /\ savers' = [savers EXCEPT ![p].pc = "opened", ![p].unique_articles = Merge(p)]
    /\ files' = WithFile(files, SnapshotName(savers[p].date_str), Corrupt)
    /\ UNCHANGED <<now, dirExists, saveLog, upstream, run, scraped, collected, mail, monitor>>

\* line 238: json.dump writes the whole list from offset 0.  If another
\* process wrote the file since this one opened it, the longer of the two
\* texts decides: this text alone, or this text followed by the tail of the
\* other, which is no JSON
SaverDump(p) ==
    /\ savers[p].pc = "opened"
    /\ LET filename == SnapshotName(savers[p].date_str)
           mine == json_dump(savers[p].unique_articles)
       IN  \E content \in (IF files[filename].kind = "array"
                            THEN {mine, Corrupt} ELSE {mine}) :
               files' = WithFile(files, filename, content)
    /\ savers' = [savers EXCEPT ![p].pc = "done", ![p].outcome = "saved",
                                ![p].seq = NextSeq]
    /\ UNCHANGED <<now, dirExists, saveLog, upstream, run, scraped, collected, mail, monitor>>

---------------------------------------------------------------------------
(* scrape.py: main *)

\* most runs of the aggregator in one behaviour
MaxRuns == 2

\* A variant in which a failed fetch ends the walk over the registry
AfterScrapeStopOnFailure(r, feed_config, response, articles) ==
    [r EXCEPT !.all_articles = @ \o articles,
              !.visited = Append(@, feed_config.name),
              !.idx = IF FetchRaises(response) THEN Len(RSS_FEEDS) + 1 ELSE @ + 1]

\* lines 258-260: the locals of main after one source was scraped
AfterScrape(r, feed_config, response, articles) ==
    [r EXCEPT !.all_articles = @ \o articles,
              !.visited = Append(@, feed_config.name),
              !.idx = @ + 1]

\* lines 247-252: a run starts and takes its date from the clock
MainStart ==
    /\ run.pc = "idle"
    /\ run.finished < MaxRuns
    /\ run' = [run EXCEPT !.pc = "scraping", !.idx = 1, !.date_str = strftime(now),
                          !.all_articles = <<>>, !.visited = <<>>, !.outcome = "none",
                          !.readFailed = FALSE, !.exit = "none"]
    /\ UNCHANGED <<now, dirExists, files, saveLog, upstream, scraped, collected, savers, mail, monitor>>

\* lines 255-260: the next source of the registry is scraped
MainScrape ==
    /\ run.pc = "scraping"
    /\ run.idx <= Len(RSS_FEEDS)
    /\ LET feed_config == RSS_FEEDS[run.idx]
           response == upstream[run.idx]
           articles == scrape_feed(feed_config, response, now)
       IN  /\ run' = AfterScrape(run, feed_config, response, articles)
           /\ scraped' = [called |-> TRUE, feed_config |-> feed_config,
                          response |-> response, at |-> now, articles |-> articles]
    /\ UNCHANGED <<now, dirExists, files, saveLog, upstream, collected, savers, mail, monitor>>

\* "saved" and "skipped" are the calls no storage error touched
Clean(outcome) == outcome \in {"saved", "skipped"}

\* line 263: the collected articles are saved, the storage failing in one of
\* the ways of faults or not at all; run remembers whether the snapshot could
\* not be read, and how the run before ended
MainSaveWith(faults) ==
    /\ run.pc = "scraping"
    /\ run.idx > Len(RSS_FEEDS)
    /\ \E fault \in faults :
          /\ Save(run.all_articles, run.date_str, fault)
          /\ LET r == save_articles_to_json(run.all_articles, run.date_str, fault,
                                            dirExists, files)
             IN  run' = [run EXCEPT
                            !.pc = "done",
                            !.outcome = r.outcome,
                            !.readFailed = /\ r.outcome = "error"
                                           /\ ReadFails(run.date_str, fault, files),
                            !.finished = @ + 1,
                            !.sameAsPrev = ~run.changed,
                            !.changed = FALSE,
                            !.prevDate = run.lastDate,
                            !.prevClean = run.lastClean,
                            !.prevLinks = run.lastLinks,
                            !.lastDate = run.date_str,
                            !.lastClean = Clean(r.outcome),
                            !.lastLinks = Links(SnapshotOf(r.files, run.date_str))]
    /\ UNCHANGED <<now, upstream, scraped, collected, savers, mail, monitor>>

\* line 265 and the end of the process: "Scraping completed" is logged and
\* the process exits normally, unless save_articles_to_json raised (its
\* os.makedirs, line 214, is outside the try) and main ends in a traceback
MainExit ==
    /\ run.pc = "done"
    /\ run' = [run EXCEPT !.pc = "idle",
                          !.exit = IF run.outcome = "raised" THEN "traceback"
                                   ELSE "completed"]
    /\ UNCHANGED <<now, dirExists, files, saveLog, upstream, scraped, collected, savers, mail, monitor>>

---------------------------------------------------------------------------
(* send_email.py: get_articles_from_last_week *)

\* timedelta(days=7), line 70
WindowDays == 7

\* datetime.strptime(file_date_str, '%Y-%m-%d') raises ValueError on such a stem
StrptimeRaises(stem) == stem.kind # "date"

\* datetime.strptime(file_date_str, '%Y-%m-%d'): midnight of the day named
strptime(stem) == stem.day * TicksPerDay

\* A dictionary that lacks the second audience
OnlyFirstAudience == [a \in {"audience_1"} |-> <<>>]

\* lines 63-66
InitialByAudience == [a \in Audiences |-> <<>>]

\* article.get(key): the value of the field, None when the record lacks it
None == "None"
get(article, key) == IF key \in DOMAIN article THEN article[key] ELSE None

\* A variant that files every record under the first audience
OrganizeUnderFirst(article, by_audience) ==
    [by_audience EXCEPT !["audience_1"] = Append(@, article)]

\* lines 95-97: one record appended to the list of its audience, if that is
\* a key of the dictionary
Organize(article, by_audience) ==
    LET audience == get(article, "audience")
    IN  IF audience \in DOMAIN by_audience
        THEN [by_audience EXCEPT ![audience] = Append(@, article)]
        ELSE by_audience

\* lines 94-97: the records of one file appended to the lists of their audiences
RECURSIVE OrganizeLoop(_, _, _)
OrganizeLoop(articles, i, by_audience) ==
    IF i > Len(articles) THEN by_audience
    ELSE OrganizeLoop(articles, i + 1, Organize(articles[i], by_audience))

\* line 87 with lines 69-70: the test that admits a file date
InDateRange(file_date, t) ==
    LET end_date == t
        start_date == end_date - WindowDays * TicksPerDay
    IN  start_date <= file_date /\ file_date <= end_date

Returned(by_audience) == [status |-> "returned", value |-> by_audience]
Raised == [status |-> "raised", value |-> <<>>]

\* lines 80-102: the loop over os.listdir(data_dir), which lists in the order `listing`
RECURSIVE ListdirLoop(_, _, _, _, _)
ListdirLoop(listing, i, t, fs, by_audience) ==
    IF i > Len(listing) THEN Returned(by_audience)
    ELSE LET filename == listing[i]
             content  == fs[filename]
         IN  IF filename.ext # "json"
             THEN ListdirLoop(listing, i + 1, t, fs, by_audience)
             ELSE IF StrptimeRaises(filename.stem)
             THEN ListdirLoop(listing, i + 1, t, fs, by_audience)
             ELSE IF ~InDateRange(strptime(filename.stem), t)
             THEN ListdirLoop(listing, i + 1, t, fs, by_audience)
             ELSE IF ~content.readable THEN Raised
             ELSE IF JsonLoadRaises(content)
             THEN ListdirLoop(listing, i + 1, t, fs, by_audience)
             ELSE IF content.kind # "array" THEN Raised
             ELSE ListdirLoop(listing, i + 1, t, fs,
                              OrganizeLoop(json_load(content), 1, by_audience))

\* lines 61-104
get_articles_from_last_week(t, dir, fs, listing) ==
    IF ~dir THEN Returned(InitialByAudience)
    ELSE ListdirLoop(listing, 1, t, fs, InitialByAudience)

\* The orders in which os.listdir may list the files of fs
Listings(fs) ==
    {l \in [1..Cardinality(DOMAIN fs) -> DOMAIN fs] :
        \A i, j \in 1..Cardinality(DOMAIN fs) : l[i] = l[j] => i = j}

\* One call of get_articles_from_last_week; collected remembers the call
Collect ==
    \E listing \in Listings(files) :
        LET r == get_articles_from_last_week(now, dirExists, files, listing)
        IN  collected' = [called |-> TRUE, at |-> now, dir |-> dirExists, fs |-> files,
                          listing |-> listing, status |-> r.status, value |-> r.value]

---------------------------------------------------------------------------
(* send_email.py: generate_ai_summary, create_html_email, send_email, main *)

\* What the far end of an outbound call does: answers, refuses or fails, or
\* accepts the connection and never answers
Endpoints == {"ok", "error", "silent"}

\* No timeout given: the call waits as long as the far end stays silent
NoTimeout == "none"
\* line 34: OpenAI(api_key=...) without timeout, so the client library's
\* finite default applies to chat.completions.create
SummarizerTimeout == "library default"
\* line 266: smtplib.SMTP(host, port) without timeout, so the socket blocks
SmtpTimeout == NoTimeout

Call(endpoint, timeout) == [endpoint |-> endpoint, timeout |-> timeout]
NoCall == Call("ok", NoTimeout)

\* The call never returns: the far end is silent and nothing ends the wait
Blocks(call) == call.endpoint = "silent" /\ call.timeout = NoTimeout

\* lines 139-156: the text the summarizer gave, or the text that reports the
\* error when the call raised (a timeout included)
SummaryText(audience) == [kind |-> "summary", audience |-> audience]
FallbackText == [kind |-> "fallback", audience |-> "none"]
NoSummary == [kind |-> "none", audience |-> "none"]

\* lines 106-156, the summarizer answering as `endpoint` does
generate_ai_summary(articles, audience, endpoint) ==
    IF articles = <<>> THEN [kind |-> "no articles", audience |-> "none"]
    ELSE IF endpoint = "ok" THEN SummaryText(audience)
    ELSE FallbackText

\* lines 158-250
create_html_email(summary, audience, article_count) ==
    [summary |-> summary, audience |-> audience, article_count |-> article_count]
NoHtml == create_html_email(NoSummary, "none", 0)

\* lines 252-276, the SMTP server answering as `endpoint` does: True when
\* the message was handed over, False when anything raised
send_email(recipient, html_content, endpoint) == endpoint = "ok"

\* The environment variables main looks at; the three credentials as one
Env(credentials, recipient_1, recipient_2) ==
    [credentials |-> credentials, RECIPIENT_1 |-> recipient_1,
     RECIPIENT_2 |-> recipient_2]

\* lines 41-44: EMAIL_CONFIG['recipients'][audience], read from the environment
Recipient(env, audience) ==
    IF audience = "audience_1" THEN env.RECIPIENT_1 ELSE env.RECIPIENT_2

\* lines 283-284: a required variable is missing
MissingVars(env) == ~env.credentials \/ ~env.RECIPIENT_1

\* lines 291-295
AudiencesToProcess(env) ==
    (IF env.RECIPIENT_1 THEN <<"audience_1">> ELSE <<>>)
        \o (IF env.RECIPIENT_2 THEN <<"audience_2">> ELSE <<>>)

\* What main did for one audience
NoAudienceLog == [summarizer |-> "none", html |-> NoHtml, attempted |-> FALSE,
                  smtp |-> "none", success |-> FALSE]

NoMail == [pc |-> "idle", env |-> Env(FALSE, FALSE, FALSE),
           audiences_to_process |-> <<>>, idx |-> 1,
           articles_by_audience |-> InitialByAudience,
           call |-> NoCall, html_content |-> NoHtml,
           log |-> [a \in Audiences |-> NoAudienceLog]]

\* A variant in which a failed send ends the loop over the audiences
AfterSendStopOnFailure(m, success) ==
    [m EXCEPT !.pc = "loop",
              !.idx = IF success THEN @ + 1 ELSE Len(m.audiences_to_process) + 1]

\* lines 328-333: the result is logged and the loop goes to the next audience
AfterSend(m, success) == [m EXCEPT !.pc = "loop", !.idx = @ + 1]

\* lines 278-302: the checks of the environment, then the collection
MailMain ==
    /\ mail.pc = "idle"
    /\ IF MissingVars(mail.env) \/ AudiencesToProcess(mail.env) = <<>>
       THEN /\ mail' = [mail EXCEPT !.pc = "returned"]
            /\ UNCHANGED collected
       ELSE /\ Collect
            /\ mail' = [mail EXCEPT
                   !.pc = IF collected'.status = "raised" THEN "raised" ELSE "loop",
                   !.audiences_to_process = AudiencesToProcess(mail.env),
                   !.idx = 1,
                   !.articles_by_audience =
                       IF collected'.status = "raised" THEN InitialByAudience
                       ELSE collected'.value]
    /\ UNCHANGED <<now, dirExists, files, saveLog, upstream, run, scraped, savers, monitor>>

\* lines 305-321: the next audience; without articles it is passed over,
\* else the summarizer is called
MailLoop ==
    /\ mail.pc = "loop"
    /\ mail.idx <= Len(mail.audiences_to_process)
    /\ LET audience == mail.audiences_to_process[mail.idx]
           articles == mail.articles_by_audience[audience]
       IN  IF articles = <<>> \/ ~Recipient(mail.env, audience)
           THEN mail' = [mail EXCEPT !.idx = @ + 1]
           ELSE \E endpoint \in Endpoints :
                    mail' = [mail EXCEPT !.pc = "summarizing",
                                         !.call = Call(endpoint, SummarizerTimeout)]
    /\ UNCHANGED <<now, dirExists, files, saveLog, upstream, run, scraped, collected,
                   savers, monitor>>

\* lines 139-156 and 321-328: the summarizer call returns or, after its
\* timeout, raises; the email is built and the SMTP session is opened
SummarizerReturns ==
    /\ mail.pc = "summarizing"
    /\ ~Blocks(mail.call)
    /\ LET audience == mail.audiences_to_process[mail.idx]
           articles == mail.articles_by_audience[audience]
           summary == generate_ai_summary(articles, audience, mail.call.endpoint)
           html_content == create_html_email(summary, audience, Len(articles))
       IN  \E endpoint \in Endpoints :
               mail' = [mail EXCEPT
                   !.pc = "sending",
                   !.call = Call(endpoint, SmtpTimeout),
                   !.html_content = html_content,
                   !.log[audience].summarizer = mail.call.endpoint,
                   !.log[audience].html = html_content,
                   !.log[audience].attempted = TRUE,
                   !.log[audience].smtp = endpoint]
    /\ UNCHANGED <<now, dirExists, files, saveLog, upstream, run, scraped, collected,
                   savers, monitor>>

\* lines 266-276 and 328-333: the SMTP session ends, in success or in an
\* exception that send_email logs
MailerReturns ==
    /\ mail.pc = "sending"
    /\ ~Blocks(mail.call)
    /\ LET audience == mail.audiences_to_process[mail.idx]
           success == send_email(Recipient(mail.env, audience), mail.html_content,
                                 mail.call.endpoint)
       IN  mail' = AfterSend([mail EXCEPT !.log[audience].success = success], success)
    /\ UNCHANGED <<now, dirExists, files, saveLog, upstream, run, scraped, collected,
                   savers, monitor>>

\* line 335: "Email sending completed"
MailEnd ==
    /\ mail.pc = "loop"
    /\ mail.idx > Len(mail.audiences_to_process)
    /\ mail' = [mail EXCEPT !.pc = "completed"]
    /\ UNCHANGED <<now, dirExists, files, saveLog, upstream, run, scraped, collected,
                   savers, monitor>>

---------------------------------------------------------------------------
(* monitor.py: the checks and generate_status_report *)

\* line 51, range(7): the days check_data_files looks at
DaysChecked == 7

\* line 75
LogFiles == {"scraper.log", "email_sender.log", "monitor.log"}

\* A log file: a sequence of lines, each with its time and level
LogLine(at, level) == [at |-> at, level |-> level]
LogFile(lines) == [exists |-> TRUE, readable |-> TRUE, lines |-> lines]
AbsentLog == [exists |-> FALSE, readable |-> FALSE, lines |-> <<>>]
UnreadableLog == [exists |-> TRUE, readable |-> FALSE, lines |-> <<>>]

\* A result that has the key, and dict[key] raising KeyError when it has not
HasKey(result, key) == key \in DOMAIN result

\* lines 40-71
check_data_files(t, dir, fs) ==
    IF ~dir THEN [status |-> "error", message |-> "Data directory not found"]
    ELSE LET today == t \div TicksPerDay
             check_date(i) == t - i * TicksPerDay
             name(i) == SnapshotName(strftime(check_date(i)))
             present == {i \in 0..(DaysChecked - 1) : name(i) \in DOMAIN fs}
             loads(i) == fs[name(i)].readable /\ ~JsonLoadRaises(fs[name(i)])
             Sum[i \in 0..DaysChecked] ==
                 IF i = 0 THEN 0
                 ELSE Sum[i - 1] + (IF (i - 1) \in present /\ loads(i - 1)
                                    THEN Len(json_load(fs[name(i - 1)])) ELSE 0)
             missing_days == {today - i : i \in (0..(DaysChecked - 1)) \ present}
         IN  [status |-> IF missing_days # {} THEN "warning" ELSE "ok",
              total_articles |-> Sum[DaysChecked],
              missing_days |-> missing_days,
              data_files_checked |-> DaysChecked]

\* lines 79-111: the status of one log file at time t
LogStatus(log, t) ==
    IF ~log.exists THEN [status |-> "warning", message |-> "Log file not found"]
    ELSE IF ~log.readable THEN [status |-> "error", message |-> "unreadable"]
    ELSE LET yesterday == t - TicksPerDay
             recent_lines == SelectSeq(log.lines, LAMBDA l : l.at >= yesterday)
             error_count == Len(SelectSeq(recent_lines, LAMBDA l : l.level = "ERROR"))
             warning_count == Len(SelectSeq(recent_lines, LAMBDA l : l.level = "WARNING"))
         IN  [status |-> IF error_count > 0 THEN "error"
                         ELSE IF warning_count > 0 THEN "warning" ELSE "ok",
              error_count |-> error_count,
              warning_count |-> warning_count,
              total_lines |-> Len(recent_lines)]

\* lines 73-113
check_log_files(logs, t) == [f \in LogFiles |-> LogStatus(logs[f], t)]

\* lines 115-128; missing_vars as whether any variable is missing
check_environment(missing_vars) ==
    [status |-> IF missing_vars THEN "error" ELSE "ok", missing_variables |-> missing_vars]

\* A variant in which a warning outranks an error
OverallStatusWarningFirst(data_status, log_status, env_status) ==
    IF data_status.status = "warning" \/ env_status.status = "warning"
       \/ \E f \in DOMAIN log_status : log_status[f].status = "warning"
    THEN "warning"
    ELSE IF data_status.status = "error" \/ env_status.status = "error"
            \/ \E f \in DOMAIN log_status : log_status[f].status = "error"
    THEN "error"
    ELSE "ok"

\* lines 140-146
OverallStatus(data_status, log_status, env_status) ==
    IF data_status.status = "error" \/ env_status.status = "error"
       \/ \E f \in DOMAIN log_status : log_status[f].status = "error"
    THEN "error"
    ELSE IF data_status.status = "warning" \/ env_status.status = "warning"
            \/ \E f \in DOMAIN log_status : log_status[f].status = "warning"
    THEN "warning"
    ELSE "ok"

NoReport == [status |-> "none", overall_status |-> "none"]

\* lines 130-196: the checks, the overall status, and the text, which reads
\* data_status['total_articles'] and data_status['missing_days'] (lines
\* 158-159, 188) and raises KeyError when the result has no such key
generate_status_report(t, dir, fs, logs, missing_vars) ==
    LET data_status == check_data_files(t, dir, fs)
        log_status == check_log_files(logs, t)
        env_status == check_environment(missing_vars)
        overall_status == OverallStatus(data_status, log_status, env_status)
    IN  IF ~HasKey(data_status, "total_articles") \/ ~HasKey(data_status, "missing_days")
        THEN [status |-> "raised", overall_status |-> "none"]
        ELSE [status |-> "returned", overall_status |-> overall_status]

NoMonitor == [called |-> FALSE, logs |-> [f \in LogFiles |-> AbsentLog],
              missing_vars |-> FALSE, report |-> NoReport]

\* monitor.main, line 264: one call of generate_status_report
MonitorReport ==
    /\ ~monitor.called
    /\ monitor' = [monitor EXCEPT
           !.called = TRUE,
           !.report = generate_status_report(now, dirExists, files, monitor.logs,
                                             monitor.missing_vars)]
    /\ UNCHANGED <<now, dirExists, files, saveLog, upstream, run, scraped, collected,
                   savers, mail>>

---------------------------------------------------------------------------
(* Initial values of the parts a specification leaves alone *)

NoUpstream == <<>>
NoRun == [pc |-> "idle", idx |-> 1, date_str |-> strftime(0), all_articles |-> <<>>,
          visited |-> <<>>, outcome |-> "none", readFailed |-> FALSE,
          exit |-> "none", finished |-> 0,
          changed |-> FALSE, sameAsPrev |-> FALSE,
          prevDate |-> strftime(0), prevClean |-> FALSE, prevLinks |-> <<>>,
          lastDate |-> strftime(0), lastClean |-> FALSE, lastLinks |-> <<>>]
NoScrape == [called |-> FALSE, feed_config |-> RSS_FEEDS[1],
             response |-> Response("ok", <<>>), at |-> 0, articles |-> <<>>]
NoSavers == [p \in Savers |-> Saver(<<>>, strftime(0))]
NoCollect == [called |-> FALSE, at |-> 0, dir |-> FALSE, fs |-> <<>>,
              listing |-> <<>>, status |-> "none", value |-> <<>>]

---------------------------------------------------------------------------
(* SpecSave: repeated save_articles_to_json calls for one date, from an    *)
(* empty disk                                                              *)

ArtA  == Article(<<"A">>,   <<>>, "L1", Src1, "audience_1", <<1>>)
ArtB  == Article(<<"Old">>, <<>>, "L2", Src1, "audience_1", <<1>>)
ArtB2 == Article(<<"New">>, <<>>, "L2", Src2, "audience_1", <<2>>)
ArtC  == Article(<<"C">>,   <<>>, "L3", Src3, "audience_2", <<2>>)

SaveArticles == {ArtA, ArtB, ArtB2, ArtC}

SaveInit ==
    /\ now = TicksPerDay
    /\ dirExists = FALSE
    /\ files = <<>>
    /\ saveLog = NoSave
    /\ upstream = NoUpstream
    /\ run = NoRun
    /\ scraped = NoScrape
    /\ collected = NoCollect
    /\ monitor = NoMonitor
    /\ mail = NoMail
    /\ savers = NoSavers

SaveCall ==
    /\ \E articles \in SeqsUpTo(SaveArticles, MaxNew), fault \in Faults :
           Save(articles, strftime(now), fault)
    /\ UNCHANGED <<now, upstream, run, scraped, collected, savers, mail, monitor>>

SaveNext == SaveCall

SpecSave == SaveInit /\ [][SaveNext]_vars

---------------------------------------------------------------------------
(* Claims about save_articles_to_json, checked under SpecSave *)

SaveCalled == saveLog.outcome # "none"

ExistingBefore == SnapshotOf(saveLog.filesBefore, saveLog.date_str)

\* The subsequence of s at the positions whose link occurs at no earlier position
FirstOccurrences(s) ==
    LET first(i) == \A j \in 1..(i - 1) : s[j].link # s[i].link
        F[i \in 0..Len(s)] ==
            IF i = 0 THEN <<>>
            ELSE IF first(i) THEN F[i - 1] \o <<s[i]>> ELSE F[i - 1]
    IN  F[Len(s)]

\* C1: after any sequence of save_articles_to_json calls for one date, from
\* no snapshot file, with any non-empty lists of articles (the same link may
\* occur several times in a list), no two records of the persisted snapshot
\* have the same link.
C1_NoTwoRecordsShareALink ==
    \A name \in DOMAIN files :
        files[name].kind = "array" =>
            \A i, j \in 1..Len(files[name].body) :
                files[name].body[i].link = files[name].body[j].link => i = j

\* C1 witness: a call given the same link twice, after a snapshot with that
\* link was persisted, completed.
C1_Witness ==
    /\ saveLog.outcome = "saved"
    /\ saveLog.articles = <<ArtA, ArtB2>>
    /\ ExistingBefore = <<ArtB>>
    /\ SnapshotOf(files, saveLog.date_str) = <<ArtB, ArtA>>

\* C2: once a record is persisted, every later save_articles_to_json call for
\* that date, completing or hitting a storage error while reading or writing,
\* leaves the snapshot it met as a prefix of the snapshot it leaves.
C2_SnapshotBeforeIsPrefixOfAfter ==
    (SaveCalled /\ HasSnapshot(saveLog.filesBefore, saveLog.date_str)) =>
        /\ HasSnapshot(files, saveLog.date_str)
        /\ IsPrefix(ExistingBefore, SnapshotOf(files, saveLog.date_str))

\* C3: the snapshot a completed call writes is the existing snapshot followed
\* by the new articles, with every record removed whose link occurred earlier
\* in that concatenation: the first occurrence wins and the order is kept.
C3_MergeKeepsFirstOccurrences ==
    saveLog.outcome = "saved" =>
        /\ HasSnapshot(files, saveLog.date_str)
        /\ SnapshotOf(files, saveLog.date_str)
             = FirstOccurrences(ExistingBefore \o saveLog.articles)

\* C3 witness: existing [A, B], new [C, B'] with B' a copy of B's link under
\* another title, gives [A, B, C].
C3_Witness ==
    /\ saveLog.outcome = "saved"
    /\ ExistingBefore = <<ArtA, ArtB>>
    /\ saveLog.articles = <<ArtC, ArtB2>>
    /\ SnapshotOf(files, saveLog.date_str) = <<ArtA, ArtB, ArtC>>

\* C5: a call given no article writes nothing: the data directory, an
\* existing snapshot included, is exactly as before, and no file and no
\* directory is created.
C5_EmptyRunWritesNothing ==
    (SaveCalled /\ saveLog.articles = <<>>) =>
        /\ files = saveLog.filesBefore
        /\ dirExists = saveLog.dirBefore

\* C5 witness: a call given no article met a snapshot with two records.
C5_Witness ==
    /\ SaveCalled
    /\ saveLog.articles = <<>>
    /\ ExistingBefore = <<ArtA, ArtB>>
    /\ SnapshotOf(files, saveLog.date_str) = <<ArtA, ArtB>>

---------------------------------------------------------------------------
(* SpecWindow: get_articles_from_last_week on data directories drawn from  *)
(* a bounded family, at every time of day                                  *)

\* most files in the data directory
MaxFiles == 2

\* the day the clock starts in: late enough for a snapshot 8 days old
FirstDay == WindowDays + 1

DatedName(d) == SnapshotName([kind |-> "date", day |-> d])
NotesName == SnapshotName(NotADate("notes"))
LogName == [stem |-> [kind |-> "date", day |-> FirstDay], ext |-> "log"]

WindowNames ==
    {DatedName(d) : d \in {FirstDay - 8, FirstDay - 7, FirstDay - 6, FirstDay, FirstDay + 1}}
        \cup {NotesName, LogName}

RecM == Article(<<"M">>, <<>>, "L1", Src1, "audience_1", <<1>>)
RecE == Article(<<"E">>, <<>>, "L2", Src3, "audience_2", <<1>>)
RecX == Article(<<"X">>, <<>>, "L3", Src3, "audience_3", <<1>>)
\* a record without an audience field
RecN == [title |-> <<"N">>, summary |-> <<>>, link |-> "L4", source |-> Src3,
         timestamp |-> <<1>>]

Unreadable == [kind |-> "array", body |-> <<RecM>>, readable |-> FALSE]
\* well-formed JSON that is no list: a dictionary with a key
JsonObject == [kind |-> "object", body |-> <<>>, readable |-> TRUE]

WindowContents ==
    {json_dump(<<RecM>>), json_dump(<<RecE, RecX, RecN>>), Corrupt, JsonObject, Unreadable}

WindowDirs ==
    UNION {[names -> WindowContents] :
              names \in {n \in SUBSET WindowNames : Cardinality(n) <= MaxFiles}}

WindowInit ==
    /\ now = FirstDay * TicksPerDay
    /\ dirExists \in BOOLEAN
    /\ files \in WindowDirs
    /\ dirExists = FALSE => files = <<>>
    /\ saveLog = NoSave
    /\ upstream = NoUpstream
    /\ run = NoRun
    /\ scraped = NoScrape
    /\ collected = NoCollect
    /\ monitor = NoMonitor
    /\ mail = NoMail
    /\ savers = NoSavers

\* The clock advances, through FirstDay to the midnight that ends it
WindowTick ==
    /\ now + 1 <= (FirstDay + 1) * TicksPerDay
    /\ now' = now + 1
    /\ UNCHANGED <<dirExists, files, saveLog, upstream, run, scraped, collected, savers, mail, monitor>>

WindowCollect ==
    /\ Collect
    /\ UNCHANGED <<now, dirExists, files, saveLog, upstream, run, scraped, savers, mail, monitor>>

WindowNext == WindowTick \/ WindowCollect

SpecWindow == WindowInit /\ [][WindowNext]_vars

---------------------------------------------------------------------------
(* Claims about get_articles_from_last_week, checked under SpecWindow *)

DayOf(t) == t \div TicksPerDay

\* The .json files of fs named by a date whose day is in days, holding a
\* readable list
SnapshotsOn(fs, days) ==
    {n \in DOMAIN fs : /\ n.ext = "json" /\ n.stem.kind = "date" /\ n.stem.day \in days
                       /\ fs[n].kind = "array" /\ fs[n].readable}

\* The records tagged audience a in the files of `listing` that are in `names`,
\* in listing order
RecordsFor(a, listing, fs, names) ==
    LET F[i \in 0..Len(listing)] ==
            IF i = 0 THEN <<>>
            ELSE IF listing[i] \in names
                 THEN F[i - 1] \o SelectSeq(fs[listing[i]].body,
                                           LAMBDA r : get(r, "audience") = a)
                 ELSE F[i - 1]
    IN  F[Len(listing)]

\* C9: at every time of day, the result holds exactly the records of the
\* snapshots dated from 7 days before the current date to the current date:
\* the snapshot dated 7 days before is included, the one dated 8 days before
\* is not.
C9_WindowIsSevenDaysBackInclusive ==
    (collected.called /\ collected.status = "returned") =>
        \A a \in Audiences :
            /\ a \in DOMAIN collected.value
            /\ collected.value[a] =
                   RecordsFor(a, collected.listing, collected.fs,
                       SnapshotsOn(collected.fs,
                           (DayOf(collected.at) - WindowDays)..DayOf(collected.at)))

\* Files that make the call raise when they are read
BreaksCollect(fs) ==
    {n \in DOMAIN fs : /\ n.ext = "json" /\ n.stem.kind = "date"
                       /\ (~fs[n].readable \/ fs[n].kind = "object")}

\* C10: whatever the data directory holds (nothing at all, no file,
\* snapshots inside and outside the window, files with unparsable names), the
\* call returns, and every result has a key for each audience of the fixed
\* enumeration, mapped to a sequence that may be empty.
C10_EveryAudienceHasAKey ==
    collected.called =>
        /\ collected.status = "returned" => DOMAIN collected.value = Audiences
        /\ BreaksCollect(collected.fs) = {} => collected.status = "returned"

\* C10 witness: a call on a directory with a snapshot in the window and a
\* file with an unparsable name returned an empty sequence for one audience.
C10_Witness ==
    /\ collected.called
    /\ collected.status = "returned"
    /\ DOMAIN collected.fs = {NotesName, DatedName(FirstDay)}
    /\ collected.fs[DatedName(FirstDay)] = json_dump(<<RecM>>)
    /\ collected.value["audience_1"] = <<RecM>>
    /\ collected.value["audience_2"] = <<>>

\* The snapshots the test of line 87 admits at time t and that hold a
\* readable list
Admitted(fs, t) ==
    {n \in DOMAIN fs : /\ n.ext = "json" /\ n.stem.kind = "date"
                       /\ InDateRange(strptime(n.stem), t)
                       /\ fs[n].kind = "array" /\ fs[n].readable}

\* C11: a snapshot in the window that cannot be read (unreadable file,
\* corrupt JSON, or JSON that is no list of records) is skipped: the call
\* still returns, with the records of every other admitted snapshot.
C11_UnreadableSnapshotIsSkipped ==
    (collected.called /\ collected.dir) =>
        /\ collected.status = "returned"
        /\ \A a \in Audiences :
               collected.value[a] =
                   RecordsFor(a, collected.listing, collected.fs,
                              Admitted(collected.fs, collected.at))

\* The records of the admitted snapshots of the last call
AdmittedRecords ==
    UNION {Range(collected.fs[n].body) : n \in Admitted(collected.fs, collected.at)}

\* C13: a call that returns has placed every record of every snapshot it
\* admitted in the sequence of the audience its audience field names, as often
\* as the snapshots hold it and in listing order, and in no other sequence;
\* no record is in two sequences, and a record whose audience field is absent
\* or outside the enumeration is in none.
C13_RecordsGoToTheirOwnAudience ==
    (collected.called /\ collected.status = "returned") =>
        /\ \A a \in Audiences :
               collected.value[a] =
                   RecordsFor(a, collected.listing, collected.fs,
                              Admitted(collected.fs, collected.at))
        /\ \A a \in Audiences : \A r \in Range(collected.value[a]) :
               get(r, "audience") = a
        /\ \A a, b \in Audiences :
               a # b => Range(collected.value[a]) \cap Range(collected.value[b]) = {}
        /\ \A r \in AdmittedRecords :
               /\ get(r, "audience") \in Audiences =>
                      r \in Range(collected.value[get(r, "audience")])
               /\ get(r, "audience") \notin Audiences =>
                      \A a \in Audiences : r \notin Range(collected.value[a])

\* C13 witness: a call admitted two snapshots holding a record of each
\* audience, a record of an unknown audience and a record without audience
\* field, and returned the first two, each under its own audience.
C13_Witness ==
    /\ collected.called /\ collected.status = "returned"
    /\ collected.listing = <<DatedName(FirstDay), DatedName(FirstDay - 6)>>
    /\ collected.fs[DatedName(FirstDay)] = json_dump(<<RecE, RecX, RecN>>)
    /\ collected.fs[DatedName(FirstDay - 6)] = json_dump(<<RecM>>)
    /\ collected.at > FirstDay * TicksPerDay
    /\ collected.value["audience_1"] = <<RecM>>
    /\ collected.value["audience_2"] = <<RecE>>

\* C11 for corrupt JSON alone, the one read failure the code catches
C11_CorruptSnapshotIsSkipped ==
    (collected.called /\ collected.dir /\ BreaksCollect(collected.fs) = {}) =>
        /\ collected.status = "returned"
        /\ \A a \in Audiences :
               collected.value[a] =
                   RecordsFor(a, collected.listing, collected.fs,
                              Admitted(collected.fs, collected.at))

---------------------------------------------------------------------------
(* SpecRun: aggregator runs over the registry, the sources failing or      *)
(* answering, the feeds changing and the clock advancing between runs, the *)
(* storage failing                                                         *)

Title(word) == Attr(<<word>>)
Link(url) == Attr(url)

EntA  == Entry(Title("A"), Link("L1"), NoAttr, NoAttr, DateAttr("time", 1), NoDate)
EntB  == Entry(Title("Old"), Link("L2"), NoAttr, NoAttr, NoDate, NoDate)
EntB2 == Entry(Title("New"), Link("L2"), NoAttr, NoAttr, NoDate, NoDate)
EntC  == Entry(Title("C"), Link("L3"), NoAttr, NoAttr, NoDate, DateAttr("time", 2))
EntNoTitle == Entry(NoAttr, Link("L4"), NoAttr, NoAttr, NoDate, NoDate)

\* What each source of the registry may answer: a transport failure, or its feed
RunResponses ==
    << {Response("timeout", <<>>), Response("ok", <<EntA, EntB>>)},
       {Response("http_error", <<>>), Response("ok", <<EntC, EntB2, EntNoTitle>>)},
       {Response("tls", <<>>), Response("ok", <<EntA>>)} >>

RunFaults == {"none", "makedirs", "read", "dump"}

RunInit ==
    /\ now = FirstDay * TicksPerDay
    /\ dirExists = FALSE
    /\ files = <<>>
    /\ saveLog = NoSave
    /\ \E r1 \in RunResponses[1], r2 \in RunResponses[2], r3 \in RunResponses[3] :
           upstream = <<r1, r2, r3>>
    /\ run = NoRun
    /\ scraped = NoScrape
    /\ collected = NoCollect
    /\ monitor = NoMonitor
    /\ mail = NoMail
    /\ savers = NoSavers

\* The clock advances, up to the end of the day after FirstDay: between two
\* runs, and in a run between the last fetch and the save
Tick ==
    /\ \/ run.pc = "idle" /\ run.finished >= 1
       \/ run.pc = "scraping" /\ run.idx > Len(RSS_FEEDS)
    /\ now + 1 < (FirstDay + 2) * TicksPerDay
    /\ now' = now + 1
    /\ UNCHANGED <<dirExists, files, saveLog, upstream, run, scraped, collected, savers, mail, monitor>>

\* Between two runs one source comes to answer something else
Publish ==
    /\ run.pc = "idle"
    /\ run.finished >= 1
    /\ ~run.changed
    /\ \E i \in 1..Len(RSS_FEEDS) :
          \E response \in RunResponses[i] :
              /\ response # upstream[i]
              /\ upstream' = [upstream EXCEPT ![i] = response]
    /\ run' = [run EXCEPT !.changed = TRUE]
    /\ UNCHANGED <<now, dirExists, files, saveLog, scraped, collected, savers, mail, monitor>>

MainSave == MainSaveWith(RunFaults)

RunNext == MainStart \/ MainScrape \/ MainSave \/ MainExit \/ Tick \/ Publish

SpecRun == RunInit /\ [][RunNext]_vars

---------------------------------------------------------------------------
(* SpecScrape: aggregator runs in which the first source answers any feed  *)
(* of a bounded family of entries and the storage does not fail            *)

\* most entries in the feed of the first source
MaxEntries == 1

ScrapeTitles ==
    {NoAttr, Attr(<<>>), Attr(<<"<b>", " ", "</b>">>),
     Attr(<<" ", "Old", "<b>", "\n", " ", "New", " ">>)}
ScrapeLinks == {NoLink, Attr(""), Attr("L1")}
PublishedDates == {NoDate, DateAttr("none", 0), DateAttr("bad", 0), DateAttr("time", 1)}
UpdatedDates == {NoDate, DateAttr("none", 0), DateAttr("bad", 0), DateAttr("time", 2)}

ScrapeEntries ==
    {Entry(title, link, NoAttr, Attr(<<"about", "\n", "<b>", "it">>), published, updated) :
        title \in ScrapeTitles, link \in ScrapeLinks,
        published \in PublishedDates, updated \in UpdatedDates}

ScrapeInit ==
    /\ now \in {FirstDay * TicksPerDay, FirstDay * TicksPerDay + 1}
    /\ dirExists = FALSE
    /\ files = <<>>
    /\ saveLog = NoSave
    /\ \E first \in {Response("dns", <<>>)}
                        \cup {Response("ok", entries) :
                                 entries \in SeqsUpTo(ScrapeEntries, MaxEntries)} :
           upstream = [i \in 1..Len(RSS_FEEDS) |->
                          IF i = 1 THEN first ELSE Response("dns", <<>>)]
    /\ run = NoRun
    /\ scraped = NoScrape
    /\ collected = NoCollect
    /\ monitor = NoMonitor
    /\ mail = NoMail
    /\ savers = NoSavers

MainSaveOk == MainSaveWith({"none"})

ScrapeNext == MainStart \/ MainScrape \/ MainSaveOk \/ MainExit

SpecScrape == ScrapeInit /\ [][ScrapeNext]_vars

---------------------------------------------------------------------------
(* Claims about scrape_feed and main, checked under SpecScrape and SpecRun *)

\* A date the feed gave: present and not None
Given(date) == date.has /\ date.kind # "none"

\* The entry's dates can be read: the first date given is a time
DatesReadable(entry) ==
    IF Given(entry.published_parsed) THEN entry.published_parsed.kind = "time"
    ELSE IF Given(entry.updated_parsed) THEN entry.updated_parsed.kind = "time"
    ELSE TRUE

\* The title holds a word: a token that is neither a tag nor white space
TitlePresent(entry) ==
    /\ entry.title.has
    /\ \E i \in 1..Len(entry.title.val) : entry.title.val[i] \notin (Tags \cup Whitespace)

LinkPresent(entry) == entry.link.has /\ entry.link.val # ""

\* The entries of a feed that have a title and a link and normalize, in feed order
UsableEntries(entries) ==
    SelectSeq(entries, LAMBDA e : DatesReadable(e) /\ TitlePresent(e) /\ LinkPresent(e))

\* The usable entries of what source i answers
UsableFrom(i) ==
    IF upstream[i].status = "ok" THEN UsableEntries(upstream[i].entries) ELSE <<>>

EntryLinks(entries) == [k \in 1..Len(entries) |-> entries[k].link.val]

\* C4: a run that follows a run of the same calendar day, the sources
\* answering the same in both and the storage failing in neither, leaves the
\* snapshot with the sequence of links, hence the number of articles, that
\* the earlier run left.
C4_SecondRunAddsNoRecord ==
    (/\ run.pc = "done" /\ run.finished >= 2
     /\ run.sameAsPrev /\ run.prevDate = run.date_str
     /\ run.prevClean /\ Clean(run.outcome)) =>
        /\ Links(SnapshotOf(files, run.date_str)) = run.prevLinks
        /\ Len(SnapshotOf(files, run.date_str)) = Len(run.prevLinks)

\* C4 witness: the second of two runs of one day, later on the clock, with
\* unchanged feeds, ended with the three links of the first.
C4_Witness ==
    /\ run.pc = "done" /\ run.finished = 2
    /\ run.sameAsPrev /\ run.prevDate = run.date_str
    /\ run.prevClean /\ run.outcome = "saved"
    /\ now > FirstDay * TicksPerDay
    /\ Len(saveLog.articles) = 5
    /\ run.prevLinks = <<"L1", "L2", "L3">>
    /\ Links(SnapshotOf(files, run.date_str)) = <<"L1", "L2", "L3">>

\* C6: whichever sources fail, a run visits every source of the registry in
\* order, a failing source contributes no article, the run collects the
\* usable entries of every source that answers, and, the storage not failing,
\* the link of each of them is in the day's snapshot.
C6_FailingSourcesAreIsolated ==
    run.pc = "done" =>
        /\ run.visited = [i \in 1..Len(RSS_FEEDS) |-> RSS_FEEDS[i].name]
        /\ \A i \in 1..Len(RSS_FEEDS) :
               upstream[i].status # "ok" =>
                   \A k \in 1..Len(run.all_articles) :
                       run.all_articles[k].source # RSS_FEEDS[i].name
        /\ Links(run.all_articles)
             = EntryLinks(UsableFrom(1)) \o EntryLinks(UsableFrom(2))
                   \o EntryLinks(UsableFrom(3))
        /\ Clean(run.outcome) =>
               \A i \in 1..Len(RSS_FEEDS) :
                   \A k \in 1..Len(UsableFrom(i)) :
                       UsableFrom(i)[k].link.val
                           \in Range(Links(SnapshotOf(files, run.date_str)))

\* C6 witness: the first source timed out, the two others answered, and
\* their articles are in the snapshot.
C6_Witness ==
    /\ run.pc = "done" /\ run.outcome = "saved"
    /\ upstream[1].status = "timeout"
    /\ upstream[2].status = "ok" /\ upstream[3].status = "ok"
    /\ Links(SnapshotOf(files, run.date_str)) = <<"L3", "L2", "L1">>

\* C7: scrape_feed emits one article for each entry that normalizes with a
\* non-empty title and a non-empty link, in feed order, and none for any
\* other entry; no record of a snapshot has an empty title or an empty link.
C7_EmittedIffTitleAndLink ==
    /\ scraped.called =>
          LET usable == IF scraped.response.status = "ok"
                        THEN UsableEntries(scraped.response.entries) ELSE <<>>
          IN  /\ Len(scraped.articles) = Len(usable)
              /\ \A k \in 1..Len(usable) :
                     /\ scraped.articles[k].link = usable[k].link.val
                     /\ scraped.articles[k].title = clean_text(usable[k].title.val)
    /\ \A name \in DOMAIN files :
          \A k \in 1..Len(files[name].body) :
              files[name].body[k].title # <<>> /\ files[name].body[k].link # ""

\* C7 witness: an entry with a title of markup and blanks only, and a link,
\* was dropped, and so nothing was saved.
C7_Witness ==
    /\ run.pc = "done"
    /\ scraped.called
    /\ upstream[1].status = "ok" /\ Len(upstream[1].entries) = 1
    /\ upstream[1].entries[1].title = Attr(<<"<b>", " ", "</b>">>)
    /\ upstream[1].entries[1].link = Attr("L1")
    /\ DatesReadable(upstream[1].entries[1])
    /\ run.all_articles = <<>>
    /\ files = <<>>

\* The time an entry states: its published time, else its updated time, else
\* the time t of normalization
StatedTime(entry, t) ==
    IF entry.published_parsed.has /\ entry.published_parsed.kind = "time"
    THEN entry.published_parsed.t
    ELSE IF entry.updated_parsed.has /\ entry.updated_parsed.kind = "time"
    THEN entry.updated_parsed.t
    ELSE t

\* C8: every emitted record carries a non-empty timestamp: the entry's
\* published time if it has one, else its updated time, else the clock's time
\* at normalization.
C8_TimestampResolutionOrder ==
    scraped.called =>
        LET usable == IF scraped.response.status = "ok"
                      THEN UsableEntries(scraped.response.entries) ELSE <<>>
        IN  /\ Len(scraped.articles) = Len(usable)
            /\ \A k \in 1..Len(usable) :
                   /\ scraped.articles[k].timestamp # <<>>
                   /\ scraped.articles[k].timestamp
                          = isoformat(StatedTime(usable[k], scraped.at))

\* C8 witness: an entry with neither a published nor an updated time was
\* emitted with the time of normalization.
C8_Witness ==
    /\ scraped.called
    /\ scraped.response.status = "ok" /\ Len(scraped.response.entries) = 1
    /\ scraped.response.entries[1].published_parsed = DateAttr("none", 0)
    /\ scraped.response.entries[1].updated_parsed = NoDate
    /\ Len(scraped.articles) = 1
    /\ scraped.articles[1].timestamp = isoformat(scraped.at)
    /\ scraped.at = FirstDay * TicksPerDay + 1

\* The last save had new articles to add and could not read or parse the
\* snapshot file of its date
MetDamagedSnapshot == saveLog.articles # <<>> /\ run.readFailed

\* C12: a run that met an unreadable or corrupt snapshot for its day leaves
\* the file as it was and does not end reporting a normal completion.
C12_DamagedSnapshotIsFatal ==
    (run.pc = "idle" /\ run.finished >= 1 /\ MetDamagedSnapshot) =>
        /\ files = saveLog.filesBefore
        /\ run.exit # "completed"

\* C12, the part about the file: such a run leaves the directory as it was
C12_DamagedSnapshotIsLeft ==
    (run.pc = "idle" /\ run.finished >= 1 /\ MetDamagedSnapshot) =>
        files = saveLog.filesBefore

---------------------------------------------------------------------------
(* SpecRace: two aggregator runs of one day reach save_articles_to_json    *)
(* together and take its steps in any order                                *)

RaceInit ==
    /\ now = FirstDay * TicksPerDay
    /\ \E before \in {<<>>, <<ArtB>>} :
          IF before = <<>>
          THEN dirExists = FALSE /\ files = <<>>
          ELSE /\ dirExists = TRUE
               /\ files = WithFile(<<>>, SnapshotName(strftime(now)), json_dump(before))
    /\ saveLog = NoSave
    /\ upstream = NoUpstream
    /\ run = NoRun
    /\ scraped = NoScrape
    /\ collected = NoCollect
    /\ monitor = NoMonitor
    /\ mail = NoMail
    /\ \E a1, a2 \in SeqsUpTo(SaveArticles, MaxNew) :
          savers = [p \in Savers |-> Saver(IF p = 1 THEN a1 ELSE a2, strftime(now))]

RaceNext == \E p \in Savers : SaverRead(p) \/ SaverOpen(p) \/ SaverDump(p)

SpecRace == RaceInit /\ [][RaceNext]_vars

\* The day's snapshot as the two calls leave it
RaceSnapshot == SnapshotOf(files, strftime(now))

\* Both calls completed their write, q after p
WroteInOrder(p, q) ==
    /\ savers[p].outcome = "saved" /\ savers[q].outcome = "saved"
    /\ savers[p].seq < savers[q].seq

\* C14: nothing orders the read and write steps of two overlapping calls:
\* when both have written, the snapshot is the merge the later writer made
\* from its own earlier read (or no JSON at all), so every link the earlier
\* writer wrote that the later one neither read nor collected is lost.
C14_LaterWriterOverwritesFromItsOwnRead ==
    \A p, q \in Savers :
        WroteInOrder(p, q) =>
            /\ HasSnapshot(files, strftime(now)) =>
                   RaceSnapshot = RemoveDuplicates(savers[q].existing_data
                                                       \o savers[q].articles)
            /\ \A l \in Range(Links(savers[p].unique_articles)) :
                   l \notin (Range(Links(savers[q].existing_data))
                                 \cup Range(Links(savers[q].articles)))
                       => l \notin Range(Links(RaceSnapshot))

\* C14 witness, the lost update: both calls wrote, the first wrote article A,
\* and the snapshot is the list of the second, without A.
C14_Witness ==
    /\ WroteInOrder(1, 2)
    /\ savers[1].articles = <<ArtA>> /\ savers[1].unique_articles = <<ArtB, ArtA>>
    /\ savers[2].articles = <<ArtC>>
    /\ HasSnapshot(files, strftime(now))
    /\ RaceSnapshot = <<ArtB, ArtC>>

---------------------------------------------------------------------------
(* SpecMail: one run of send_email.main, in every environment, over data   *)
(* directories of one or two snapshots, the summarizer and the SMTP server *)
(* answering, failing or staying silent                                    *)

MailDirs ==
    {<<>>} \cup
    {WithFile(WithFile(<<>>, DatedName(FirstDay), today), DatedName(FirstDay - 1), before) :
        today \in {json_dump(<<RecM>>), json_dump(<<RecE, RecX, RecN>>), JsonObject},
        before \in {json_dump(<<RecM>>), json_dump(<<RecE, RecX, RecN>>), Corrupt}}

MailInit ==
    /\ now = FirstDay * TicksPerDay
    /\ files \in MailDirs
    /\ dirExists = (files # <<>>)
    /\ saveLog = NoSave
    /\ upstream = NoUpstream
    /\ run = NoRun
    /\ scraped = NoScrape
    /\ collected = NoCollect
    /\ monitor = NoMonitor
    /\ savers = NoSavers
    /\ \E credentials, recipient_1, recipient_2 \in BOOLEAN :
           mail = [NoMail EXCEPT !.env = Env(credentials, recipient_1, recipient_2)]

MailNext == MailMain \/ MailLoop \/ SummarizerReturns \/ MailerReturns \/ MailEnd

SpecMail == MailInit /\ [][MailNext]_vars

\* C15: no run waits on an outbound call that nothing ends: every call in
\* flight to an endpoint that never answers has a timeout.
C15_NoCallBlocksForever ==
    mail.pc \in {"summarizing", "sending"} => ~Blocks(mail.call)

\* The run under weak fairness: a step that can be taken is taken
SpecMailFair == SpecMail /\ WF_vars(MailNext)

\* C15 as termination: every run ends, by returning at the checks, by the
\* exception of the collector, or at line 335.
C15_EveryRunTerminates == <>(mail.pc \in {"returned", "raised", "completed"})

\* The audiences main has to serve: a recipient is configured and the
\* collector returned an article
ToServe ==
    {a \in Audiences : Recipient(mail.env, a) /\ mail.articles_by_audience[a] # <<>>}

\* C16: in a run that reaches the end of main, whichever summarizer calls
\* and sends failed, every audience with a configured recipient and at least
\* one article had its email generated and its send attempted; where the
\* summarizer failed the email carries the fallback text; a failed send was
\* followed by the rest of the loop.
C16_FailuresDoNotStopTheRun ==
    mail.pc = "completed" =>
        \A a \in ToServe :
            /\ mail.log[a].attempted
            /\ mail.log[a].html.audience = a
            /\ mail.log[a].html.article_count = Len(mail.articles_by_audience[a])
            /\ mail.log[a].summarizer = "ok" => mail.log[a].html.summary = SummaryText(a)
            /\ mail.log[a].summarizer # "ok" => mail.log[a].html.summary = FallbackText
            /\ mail.log[a].success = (mail.log[a].smtp = "ok")

\* C16 witness: the summarizer failed and the send failed for the first
\* audience, and the second audience was still sent its digest.
C16_Witness ==
    /\ mail.pc = "completed"
    /\ ToServe = Audiences
    /\ mail.log["audience_1"].summarizer = "error"
    /\ mail.log["audience_1"].html.summary = FallbackText
    /\ mail.log["audience_1"].attempted /\ mail.log["audience_1"].smtp = "error"
    /\ ~mail.log["audience_1"].success
    /\ mail.log["audience_2"].attempted /\ mail.log["audience_2"].success

---------------------------------------------------------------------------
(* SpecMonitor: one status report, over data directories with or without   *)
(* every day's snapshot, log files of every kind, and both environments    *)

\* A directory with a snapshot for each of the days checked
FullWeek ==
    [n \in {DatedName(FirstDay - i) : i \in 0..(DaysChecked - 1)} |-> json_dump(<<RecM>>)]

MonitorDirs ==
    {<<>>, FullWeek,
     [FullWeek EXCEPT ![DatedName(FirstDay)] = Corrupt],
     [n \in DOMAIN FullWeek \ {DatedName(FirstDay - 1)} |-> FullWeek[n]]}

MonitorLogs(t) ==
    {AbsentLog, UnreadableLog, LogFile(<<>>),
     LogFile(<<LogLine(t - TicksPerDay - 1, "ERROR")>>),
     LogFile(<<LogLine(t - 1, "INFO"), LogLine(t, "ERROR")>>),
     LogFile(<<LogLine(t - 1, "WARNING")>>),
     LogFile(<<LogLine(t - TicksPerDay, "WARNING"), LogLine(t, "ERROR")>>)}

MonitorInit ==
    /\ now = FirstDay * TicksPerDay + 1
    /\ dirExists \in BOOLEAN
    /\ files \in MonitorDirs
    /\ dirExists = FALSE => files = <<>>
    /\ saveLog = NoSave
    /\ upstream = NoUpstream
    /\ run = NoRun
    /\ scraped = NoScrape
    /\ collected = NoCollect
    /\ savers = NoSavers
    /\ mail = NoMail
    /\ \E l1, l2, l3 \in MonitorLogs(now), missing_vars \in BOOLEAN :
           monitor = [NoMonitor EXCEPT
               !.logs = [f \in LogFiles |-> IF f = "scraper.log" THEN l1
                                            ELSE IF f = "email_sender.log" THEN l2
                                            ELSE l3],
               !.missing_vars = missing_vars]

MonitorNext == MonitorReport

SpecMonitor == MonitorInit /\ [][MonitorNext]_vars

\* The statuses of the components of the last report
ComponentStatuses ==
    {check_data_files(now, dirExists, files).status,
     check_environment(monitor.missing_vars).status}
        \cup {LogStatus(monitor.logs[f], now).status : f \in LogFiles}

\* The worst of a set of statuses, error before warning before ok
Worst(statuses) ==
    IF "error" \in statuses THEN "error"
    ELSE IF "warning" \in statuses THEN "warning" ELSE "ok"

\* C17: for every combination of component statuses, the data directory
\* missing included, generate_status_report produces a report, and its
\* overall status is the worst component status, error before warning
\* before ok.
C17_OverallIsWorstComponent ==
    monitor.called =>
        /\ ComponentStatuses \subseteq {"ok", "warning", "error"}
        /\ monitor.report.status = "returned"
        /\ monitor.report.overall_status = Worst(ComponentStatuses)

\* C17 without the missing directory: whenever the data directory exists the
\* report is produced with the worst component status
C17_OverallIsWorstWhenDirExists ==
    (monitor.called /\ dirExists) =>
        /\ monitor.report.status = "returned"
        /\ monitor.report.overall_status = Worst(ComponentStatuses)

---------------------------------------------------------------------------
(* SpecFeed: aggregator runs in which the first source answers a feed of   *)
(* several entries, some of which make extract_article_data raise          *)

\* most entries in the feed of the first source
MaxFeed == 3

\* datetime(*entry.published_parsed[:6]) raises
EntBadPublished ==
    Entry(Title("P"), Link("L5"), NoAttr, NoAttr, DateAttr("bad", 0), DateAttr("time", 2))
\* published_parsed is None and datetime(*entry.updated_parsed[:6]) raises
EntBadUpdated ==
    Entry(Title("U"), Link("L6"), NoAttr, NoAttr, DateAttr("none", 0), DateAttr("bad", 0))
EntNoLink == Entry(Title("K"), NoLink, NoAttr, NoAttr, NoDate, NoDate)

FeedEntries == {EntA, EntC, EntBadPublished, EntBadUpdated, EntNoTitle, EntNoLink}

FeedInit ==
    /\ now = FirstDay * TicksPerDay
    /\ dirExists = FALSE
    /\ files = <<>>
    /\ saveLog = NoSave
    /\ \E entries \in SeqsUpTo(FeedEntries, MaxFeed) :
           upstream = [i \in 1..Len(RSS_FEEDS) |->
                          IF i = 1 THEN Response("ok", entries) ELSE Response("dns", <<>>)]
    /\ run = NoRun
    /\ scraped = NoScrape
    /\ collected = NoCollect
    /\ savers = NoSavers
    /\ mail = NoMail
    /\ monitor = NoMonitor

FeedNext == MainStart \/ MainScrape \/ MainSaveOk \/ MainExit

SpecFeed == FeedInit /\ [][FeedNext]_vars

\* The extraction of the entry raises inside the try of line 135
ExtractionRaises(entry) ==
    \/ Truthy(entry.published_parsed) /\ entry.published_parsed.kind = "bad"
    \/ ~Truthy(entry.published_parsed)
           /\ Truthy(entry.updated_parsed) /\ entry.updated_parsed.kind = "bad"

\* The positions of the entries of a feed whose extraction does not raise
\* and that have a title and a link, in feed order
ValidPositions(entries) ==
    LET ok(i) == /\ ~ExtractionRaises(entries[i])
                 /\ TitlePresent(entries[i]) /\ LinkPresent(entries[i])
        F[i \in 0..Len(entries)] ==
            IF i = 0 THEN <<>>
            ELSE IF ok(i) THEN Append(F[i - 1], i) ELSE F[i - 1]
    IN  F[Len(entries)]

\* C18: an entry whose extraction raises yields None and no article, and the
\* entries before and after it are processed as if it were not there: the
\* articles of the source are those of the valid non-raising entries, in
\* feed order.
C18_RaisingEntryIsSkipped ==
    (scraped.called /\ scraped.response.status = "ok") =>
        LET entries == scraped.response.entries
            valid == ValidPositions(entries)
        IN  /\ \A i \in 1..Len(entries) :
                   ExtractionRaises(entries[i]) =>
                       /\ extract_article_data(entries[i], scraped.feed_config.name,
                              scraped.feed_config.audience, scraped.at) = ExtractedNone
                       /\ \A k \in 1..Len(scraped.articles) :
                              scraped.articles[k].link # entries[i].link.val
            /\ Len(scraped.articles) = Len(valid)
            /\ \A k \in 1..Len(valid) :
                   /\ scraped.articles[k].link = entries[valid[k]].link.val
                   /\ scraped.articles[k].title = clean_text(entries[valid[k]].title.val)
                   /\ scraped.articles[k].timestamp
                          = isoformat(StatedTime(entries[valid[k]], scraped.at))
                   /\ scraped.articles[k].source = scraped.feed_config.name
                   /\ scraped.articles[k].audience = scraped.feed_config.audience

\* C18 witness: a feed with a raising entry between two valid ones gave the
\* articles of the two valid ones, in feed order.
C18_Witness ==
    /\ scraped.called
    /\ scraped.response = Response("ok", <<EntC, EntBadPublished, EntA>>)
    /\ Links(scraped.articles) = <<"L3", "L1">>

---------------------------------------------------------------------------
(* SpecDigest: aggregator runs on one or two days, the sources of both     *)
(* audiences publishing the same link, failing and recovering, and one     *)
(* call of the window collector after a run                                *)

DigestCollect ==
    /\ run.pc = "idle"
    /\ run.finished >= 1
    /\ ~collected.called
    /\ Collect
    /\ UNCHANGED <<now, dirExists, files, saveLog, upstream, run, scraped, savers, mail,
                   monitor>>

DigestNext ==
    MainStart \/ MainScrape \/ MainSaveOk \/ MainExit \/ Tick \/ Publish \/ DigestCollect

SpecDigest == RunInit /\ [][DigestNext]_vars

\* The audience of the first record of s that has link l
FirstAudience(s, l) ==
    LET j == CHOOSE j \in 1..Len(s) :
                 s[j].link = l /\ \A k \in 1..(j - 1) : s[k].link # l
    IN  s[j].audience

\* The snapshot a save wrote holds one record per link, tagged with the
\* audience of the first copy among the persisted records and then the new
\* articles in registry order
OneRecordTaggedByFirstCopy ==
    saveLog.outcome = "saved" =>
        LET snapshot == SnapshotOf(files, saveLog.date_str)
            all == ExistingBefore \o saveLog.articles
        IN  /\ Range(Links(snapshot)) = Range(Links(all))
            /\ \A i, j \in 1..Len(snapshot) : snapshot[i].link = snapshot[j].link => i = j
            /\ \A i \in 1..Len(snapshot) :
                   snapshot[i].audience = FirstAudience(all, snapshot[i].link)

\* The audiences for which the last collector call returned link l
AudiencesOf(l) ==
    {a \in Audiences : \E r \in Range(collected.value[a]) : r.link = l}

\* The snapshots the last collector call admitted that hold link l
SnapshotsWith(l) ==
    {n \in Admitted(collected.fs, collected.at) :
        \E r \in Range(collected.fs[n].body) : r.link = l}

\* C19 as stated: the snapshot holds one record per link, tagged by the
\* first copy, and the collector returns no link for both audiences.
C19_LinkNeverForBothAudiences ==
    /\ OneRecordTaggedByFirstCopy
    /\ (collected.called /\ collected.status = "returned") =>
           \A l \in {"L1", "L2", "L3", "L4"} : Cardinality(AudiencesOf(l)) <= 1

\* C19 amended: the snapshot holds one record per link, tagged by the first
\* copy, and the collector returns a link for exactly the audiences its
\* records in the admitted snapshots are tagged with: one audience when one
\* snapshot of the window holds the link.
C19_LinkForOneAudiencePerSnapshot ==
    /\ OneRecordTaggedByFirstCopy
    /\ (collected.called /\ collected.status = "returned") =>
           \A l \in {"L1", "L2", "L3", "L4"} :
               /\ AudiencesOf(l) =
                      {a \in Audiences :
                          \E n \in SnapshotsWith(l) :
                              \E r \in Range(collected.fs[n].body) :
                                  r.link = l /\ r.audience = a}
               /\ Cardinality(SnapshotsWith(l)) = 1 => Cardinality(AudiencesOf(l)) = 1
               /\ Cardinality(AudiencesOf(l)) <= Cardinality(SnapshotsWith(l))

\* C19 witness: the sources of both audiences published link L1 in one run,
\* the snapshot holds it once, tagged audience_1, and the collector returned
\* it for audience_1 and not for audience_2.
C19_Witness ==
    /\ collected.called /\ collected.status = "returned"
    /\ run.finished = 1
    /\ upstream[1] = Response("ok", <<EntA, EntB>>)
    /\ upstream[3] = Response("ok", <<EntA>>)
    /\ Len(SelectSeq(saveLog.articles, LAMBDA r : r.link = "L1")) = 2
    /\ SnapshotsWith("L1") = {SnapshotName(saveLog.date_str)}
    /\ AudiencesOf("L1") = {"audience_1"}

====
